---------------------------- MODULE Spec2Model ----------------------------
(***************************************************************************)
(* Model of scripts/scrape.py, the eBird rare-bird scraper: the name       *)
(* cleaner, the Wikipedia image lookup, the observation aggregator and     *)
(* the main pipeline (fetch -> process -> image lookups -> snapshot).      *)
(*                                                                         *)
(* The Python strings that are ordered or scanned (comName, obsDt, the     *)
(* titles) are sequences of code points, so that the lexicographic order   *)
(* used by sorted() and the character tests of the regular expression are  *)
(* computed and not assumed; identifiers that are only compared for        *)
(* equality (speciesCode, subId) are TLA+ strings.                         *)
(***************************************************************************)
EXTENDS Integers, Sequences, FiniteSets, TLC

VARIABLES
    pc,                 \* position of the run
    name,               \* clean_bird_name: the argument
    cleaned,            \* clean_bird_name(name)
    recleaned,          \* clean_bird_name(cleaned)
    observations,       \* process_observations: the argument
    result,             \* process_observations(observations)
    reprocessed,        \* process_observations(Flatten(result))
    raw_observations,   \* main: what fetch_notable_observations returned
    processed_data,     \* main: the species groups
    total_obs,          \* main: the sum of the groups' totalObservations
    img_i,              \* main: i of the image loop, the lookups that returned
    call,               \* the current or last call of fetch_bird_image
    invoked,            \* the rarityRank of each fetch_bird_image call
    fetches,            \* the requests sent to the observation API
    fetched,            \* whether fetch_notable_observations returned
    file                \* data/birds.json

cleanVars == <<name, cleaned, recleaned>>
procVars == <<observations, result, reprocessed>>
mainVars == <<raw_observations, processed_data, total_obs, img_i, call, invoked,
              fetches, fetched, file>>
vars == <<pc, cleanVars, procVars, mainVars>>

----------------------------------------------------------------------------
(* Bounds of the model *)

\* longest name drawn for clean_bird_name
MaxNameLen == 5

\* longest observation list drawn for process_observations
MaxObs == 3

\* longest arbitrary observation list the observation API returns in main
MaxFetched == 2

\* most species in a long list that the observation API returns in main
MaxSpecies == 31

----------------------------------------------------------------------------
(* Strings *)

Min(S) == CHOOSE x \in S : \A y \in S : x <= y
Max(S) == CHOOSE x \in S : \A y \in S : x >= y

\* the characters \s of re and str.strip() treat as whitespace (ASCII part)
IsSpace(c) == c \in {9, 10, 11, 12, 13, 28, 29, 30, 31, 32}

\* str.strip()
Strip(s) ==
    LET keep == {k \in 1..Len(s) : ~IsSpace(s[k])}
    IN IF keep = {} THEN <<>> ELSE SubSeq(s, Min(keep), Max(keep))

\* re.sub(r'\s*\([^)]*\)\s*', ' ', s), applied to s[start..]: the leftmost
\* match starts at the whitespace run before the first "(" that has a ")"
\* after it, runs to the first ")" after that "(" and takes the whitespace
\* that follows; the scan resumes after the match.
RECURSIVE ReSubFrom(_, _)
ReSubFrom(s, start) ==
    LET n == Len(s)
        opens == {p \in start..n : s[p] = 40 /\ \E q \in (p+1)..n : s[q] = 41}
    IN IF opens = {} THEN SubSeq(s, start, n)
       ELSE LET p == Min(opens)
                q == Min({r \in (p+1)..n : s[r] = 41})
                m == Min({k \in start..p : \A j \in k..(p-1) : IsSpace(s[j])})
                e == Max({k \in q..n : \A j \in (q+1)..k : IsSpace(s[j])})
            IN SubSeq(s, start, m-1) \o <<32>> \o ReSubFrom(s, e+1)

\* the positions where the token " x " starts in s
HybridSeps(s) ==
    {k \in 1..(Len(s)-2) : s[k] = 32 /\ s[k+1] = 120 /\ s[k+2] = 32}

\* a variant of clean_bird_name that forgets the .strip() after re.sub
clean_bird_name_nostrip(nm) ==
    LET n1 == ReSubFrom(nm, 1)
    IN IF HybridSeps(n1) # {}
       THEN Strip(SubSeq(n1, 1, Min(HybridSeps(n1)) - 1))
       ELSE n1

clean_bird_name(nm) ==
    LET n1 == Strip(ReSubFrom(nm, 1))
    IN IF HybridSeps(n1) # {}
       THEN Strip(SubSeq(n1, 1, Min(HybridSeps(n1)) - 1))
       ELSE n1

----------------------------------------------------------------------------
(* clean_bird_name on bounded names *)

\* " ", "(", ")", "x", "A"
Alphabet == {32, 40, 41, 120, 65}

\* "Ross's Goose (Blue Morph)"
RossGooseBlueMorph ==
    <<82, 111, 115, 115, 39, 115, 32, 71, 111, 111, 115, 101, 32,
      40, 66, 108, 117, 101, 32, 77, 111, 114, 112, 104, 41>>

\* "Ross's Goose"
RossGoose == <<82, 111, 115, 115, 39, 115, 32, 71, 111, 111, 115, 101>>

\* "Mallard x American Black Duck"
MallardHybrid ==
    <<77, 97, 108, 108, 97, 114, 100, 32, 120, 32, 65, 109, 101, 114, 105,
      99, 97, 110, 32, 66, 108, 97, 99, 107, 32, 68, 117, 99, 107>>

\* "Mallard"
Mallard == <<77, 97, 108, 108, 97, 114, 100>>

CleanInputs ==
    UNION {[1..k -> Alphabet] : k \in 0..MaxNameLen}
        \cup {RossGooseBlueMorph, MallardHybrid}

ProcIdle == observations = <<>> /\ result = <<>> /\ reprocessed = <<>>

NoFile == [exists |-> FALSE]

NoCall == [name |-> <<>>, requests |-> <<>>, returned |-> FALSE,
           result |-> <<>>]

MainIdle ==
    /\ raw_observations = <<>>
    /\ processed_data = <<>>
    /\ total_obs = 0
    /\ img_i = 0
    /\ call = NoCall
    /\ invoked = <<>>
    /\ fetches = 0
    /\ fetched = FALSE
    /\ file = NoFile

InitClean ==
    /\ pc = "clean"
    /\ name \in CleanInputs
    /\ cleaned = <<>>
    /\ recleaned = <<>>
    /\ ProcIdle
    /\ MainIdle

Clean ==
    /\ pc = "clean"
    /\ cleaned' = clean_bird_name(name)
    /\ pc' = "cleaned"
    /\ UNCHANGED <<name, recleaned, procVars, mainVars>>

CleanAgain ==
    /\ pc = "cleaned"
    /\ recleaned' = clean_bird_name(cleaned)
    /\ pc' = "recleaned"
    /\ UNCHANGED <<name, cleaned, procVars, mainVars>>

NextClean == Clean \/ CleanAgain

SpecClean == InitClean /\ [][NextClean]_vars

\* a "(" with a ")" somewhere after it
HasParenSegment(s) ==
    \E p \in 1..Len(s) : s[p] = 40 /\ \E q \in (p+1)..Len(s) : s[q] = 41

HasSurroundingSpace(s) ==
    s # <<>> /\ (IsSpace(s[1]) \/ IsSpace(s[Len(s)]))

----------------------------------------------------------------------------
(* process_observations *)

\* dict.get(key, default)
Get(d, key, default) == IF key \in DOMAIN d THEN d[key] ELSE default

\* str < str: lexicographic order on code points
LexLess(a, b) ==
    \E k \in 1..(Min({Len(a), Len(b)}) + 1) :
        /\ \A j \in 1..(k-1) : a[j] = b[j]
        /\ \/ k > Len(a) /\ k <= Len(b)
           \/ k <= Len(a) /\ k <= Len(b) /\ a[k] < b[k]

\* "Unknown", the default comName
UnknownName == <<85, 110, 107, 110, 111, 119, 110>>

\* a variant of ObsKey that deduplicates by checklist alone
ObsKeySubIdOnly(obs) == <<"", Get(obs, "subId", "")>>

\* obs_key = (species_code, sub_id)
ObsKey(obs) ==
    <<Get(obs, "speciesCode", "unknown"), Get(obs, "subId", "")>>

\* the record appended to the group's observations
NormalizedObs(obs) ==
    [locName |-> Get(obs, "locName", "Unknown location"),
     obsDt |-> Get(obs, "obsDt", <<>>),
     howMany |-> Get(obs, "howMany", 1),
     lat |-> Get(obs, "lat", "None"),
     lng |-> Get(obs, "lng", "None"),
     subId |-> Get(obs, "subId", ""),
     userDisplayName |-> Get(obs, "userDisplayName", "Anonymous")]

\* the group created at the first sight of a species code
NewGroup(obs) ==
    [comName |-> Get(obs, "comName", UnknownName),
     sciName |-> Get(obs, "sciName", ""),
     speciesCode |-> Get(obs, "speciesCode", "unknown"),
     observations |-> <<>>]

\* species_data is a dict: a sequence of groups in insertion order, one per
\* species code
GroupIndex(data, code) ==
    CHOOSE g \in 1..Len(data) : data[g].speciesCode = code

\* one iteration of the loop over the observations
ConsumeObs(st, obs) ==
    IF ObsKey(obs) \in st.seen_obs
    THEN st
    ELSE LET code == Get(obs, "speciesCode", "unknown")
             known == \E g \in 1..Len(st.species_data) :
                          st.species_data[g].speciesCode = code
             data == IF known THEN st.species_data
                     ELSE Append(st.species_data, NewGroup(obs))
             g == GroupIndex(data, code)
         IN [seen_obs |-> st.seen_obs \cup {ObsKey(obs)},
             species_data |->
                 [data EXCEPT ![g].observations =
                     Append(@, NormalizedObs(obs))]]

RECURSIVE ConsumeAll(_, _, _)
ConsumeAll(st, obsList, k) ==
    IF k > Len(obsList) THEN st
    ELSE ConsumeAll(ConsumeObs(st, obsList[k]), obsList, k + 1)

Reverse(s) == [k \in 1..Len(s) |-> s[Len(s) + 1 - k]]

\* a variant of ObsBefore that sorts oldest first
ObsBeforeAscending(a, b) == LexLess(a.obsDt, b.obsDt)

\* key=lambda x: x["obsDt"], reverse=True: a goes before b when its date
\* string is the greater one
ObsBefore(a, b) == LexLess(b.obsDt, a.obsDt)

\* sorted() is stable: x goes before the first element it strictly precedes
\* and after every element it ties with
InsertObs(sorted, x) ==
    LET later == {j \in 1..Len(sorted) : ObsBefore(x, sorted[j])}
        at == IF later = {} THEN Len(sorted) + 1 ELSE Min(later)
    IN SubSeq(sorted, 1, at - 1) \o <<x>> \o SubSeq(sorted, at, Len(sorted))

RECURSIVE SortObsUpTo(_, _)
SortObsUpTo(s, k) ==
    IF k = 0 THEN <<>>
    ELSE InsertObs(SortObsUpTo(s, k - 1), s[k])

InsertObsOldestFirst(sorted, x) ==
    LET later == {j \in 1..Len(sorted) : ObsBeforeAscending(x, sorted[j])}
        at == IF later = {} THEN Len(sorted) + 1 ELSE Min(later)
    IN SubSeq(sorted, 1, at - 1) \o <<x>> \o SubSeq(sorted, at, Len(sorted))

RECURSIVE SortOldestFirstUpTo(_, _)
SortOldestFirstUpTo(s, k) ==
    IF k = 0 THEN <<>>
    ELSE InsertObsOldestFirst(SortOldestFirstUpTo(s, k - 1), s[k])

\* a variant of SortObservations that reverses an ascending sort, which
\* also reverses the observations of one date
SortObservationsReversed(obsList) ==
    Reverse(SortOldestFirstUpTo(obsList, Len(obsList)))

\* sorted(observations, key=lambda x: x["obsDt"], reverse=True)
SortObservations(obsList) == SortObsUpTo(obsList, Len(obsList))

\* a variant of GroupLess that ranks by the count alone
GroupLessCountOnly(a, b) == a.totalObservations < b.totalObservations

\* (totalObservations, comName) < (totalObservations, comName)
GroupLess(a, b) ==
    \/ a.totalObservations < b.totalObservations
    \/ /\ a.totalObservations = b.totalObservations
       /\ LexLess(a.comName, b.comName)

InsertGroup(sorted, x) ==
    LET later == {j \in 1..Len(sorted) : GroupLess(x, sorted[j])}
        at == IF later = {} THEN Len(sorted) + 1 ELSE Min(later)
    IN SubSeq(sorted, 1, at - 1) \o <<x>> \o SubSeq(sorted, at, Len(sorted))

RECURSIVE SortGroupsUpTo(_, _)
SortGroupsUpTo(s, k) ==
    IF k = 0 THEN <<>>
    ELSE InsertGroup(SortGroupsUpTo(s, k - 1), s[k])

\* sorted(species_data.values(), key=(totalObservations, comName))
SortGroups(groups) == SortGroupsUpTo(groups, Len(groups))

\* the loop that sorts each group's observations and counts them
CountGroup(g) ==
    [comName |-> g.comName,
     sciName |-> g.sciName,
     speciesCode |-> g.speciesCode,
     observations |-> SortObservations(g.observations),
     totalObservations |-> Len(g.observations)]

\* the group with its rarityRank
Ranked(g, rank) ==
    [comName |-> g.comName,
     sciName |-> g.sciName,
     speciesCode |-> g.speciesCode,
     observations |-> g.observations,
     totalObservations |-> g.totalObservations,
     rarityRank |-> rank]

process_observations(obsList) ==
    LET st == ConsumeAll([seen_obs |-> {}, species_data |-> <<>>], obsList, 1)
        counted == [g \in 1..Len(st.species_data) |->
                        CountGroup(st.species_data[g])]
        sorted == SortGroups(counted)
    IN [i \in 1..Len(sorted) |-> Ranked(sorted[i], i)]

----------------------------------------------------------------------------
(* process_observations on bounded observation lists *)

\* "A" and "B (C)"
ComNames == {<<65>>, <<66, 32, 40, 67, 41>>}

\* "10" and "2": "2" is the later date string, though 10 is the larger number
ObsDates == {<<49, 48>>, <<50>>}

\* a raw observation is a dict; speciesCode and subId may be missing. The
\* lists drawn leave out sciName, locName, howMany, lat, lng and
\* userDisplayName, which take their defaults.
Restrict(f, D) == [k \in D |-> f[k]]

FullObs ==
    [speciesCode : {"rosgoo"}, subId : {"S1"},
     comName : ComNames, obsDt : ObsDates]

RawObs ==
    {Restrict(r, {"comName", "obsDt"} \cup opt) :
        r \in FullObs, opt \in SUBSET {"speciesCode", "subId"}}

ObsLists(n) == UNION {[1..k -> RawObs] : k \in 0..n}

\* the deduplicated observations of a result, in output order, each with
\* its group's speciesCode, comName and sciName
RECURSIVE Flatten(_, _)
Flatten(groups, g) ==
    IF g > Len(groups) THEN <<>>
    ELSE [j \in 1..Len(groups[g].observations) |->
              [speciesCode |-> groups[g].speciesCode,
               comName |-> groups[g].comName,
               sciName |-> groups[g].sciName,
               locName |-> groups[g].observations[j].locName,
               obsDt |-> groups[g].observations[j].obsDt,
               howMany |-> groups[g].observations[j].howMany,
               lat |-> groups[g].observations[j].lat,
               lng |-> groups[g].observations[j].lng,
               subId |-> groups[g].observations[j].subId,
               userDisplayName |->
                   groups[g].observations[j].userDisplayName]]
         \o Flatten(groups, g + 1)

CleanIdle == name = <<>> /\ cleaned = <<>> /\ recleaned = <<>>

InitProc ==
    /\ pc = "process"
    /\ observations \in ObsLists(MaxObs)
    /\ result = <<>>
    /\ reprocessed = <<>>
    /\ CleanIdle
    /\ MainIdle

Process ==
    /\ pc = "process"
    /\ result' = process_observations(observations)
    /\ pc' = "processed"
    /\ UNCHANGED <<observations, reprocessed, cleanVars, mainVars>>

Reprocess ==
    /\ pc = "processed"
    /\ reprocessed' = process_observations(Flatten(result, 1))
    /\ pc' = "reprocessed"
    /\ UNCHANGED <<observations, result, cleanVars, mainVars>>

NextProc == Process \/ Reprocess

SpecProc == InitProc /\ [][NextProc]_vars

Processed == pc \in {"processed", "reprocessed"}

\* the (group, position) pairs of a result
Entries(groups) ==
    {<<g, j>> : g \in 1..Len(groups), j \in 1..MaxObs + 1} \cap
    UNION {{<<g, j>> : j \in 1..Len(groups[g].observations)} :
              g \in 1..Len(groups)}

EntryKey(groups, e) ==
    <<groups[e[1]].speciesCode, groups[e[1]].observations[e[2]].subId>>

InputKeys(obsList) == {ObsKey(obsList[k]) : k \in 1..Len(obsList)}

FirstWithKey(obsList, key) ==
    Min({k \in 1..Len(obsList) : ObsKey(obsList[k]) = key})

\* C1: every distinct (speciesCode, subId) key of the input (missing
\* speciesCode read as "unknown", missing subId as "") appears exactly once
\* across all groups, in the group of its species code; the retained record
\* is the first occurrence of the key; nothing else is retained; a list of
\* two observations with one key gives one group with totalObservations 1.
C1_OnePerKey ==
    Processed =>
        /\ \A key \in InputKeys(observations) :
              \E e \in Entries(result) :
                  /\ EntryKey(result, e) = key
                  /\ \A f \in Entries(result) :
                        EntryKey(result, f) = key => f = e
                  /\ result[e[1]].observations[e[2]].obsDt =
                        observations[FirstWithKey(observations, key)].obsDt
        /\ \A e \in Entries(result) :
              EntryKey(result, e) \in InputKeys(observations)
        /\ \A g, h \in 1..Len(result) :
              result[g].speciesCode = result[h].speciesCode => g = h
        /\ (Len(observations) = 2
                /\ ObsKey(observations[1]) = ObsKey(observations[2])) =>
              (Len(result) = 1 /\ result[1].totalObservations = 1)

\* two raw observations with one key and different dates were processed
C1_Witness ==
    /\ Processed
    /\ Len(observations) = 2
    /\ ObsKey(observations[1]) = ObsKey(observations[2])
    /\ observations[1].obsDt # observations[2].obsDt
    /\ Len(result) = 1
    /\ result[1].totalObservations = 1

\* C2: the result is ordered ascending by (totalObservations, comName) and
\* the rarityRank values read in list order are 1, 2, ..., N.
C2_RankOrder ==
    Processed =>
        /\ \A i, j \in 1..Len(result) :
              i < j =>
                  \/ result[i].totalObservations < result[j].totalObservations
                  \/ /\ result[i].totalObservations =
                            result[j].totalObservations
                     /\ ~LexLess(result[j].comName, result[i].comName)
        /\ \A i \in 1..Len(result) : result[i].rarityRank = i

\* a species with one sighting, seen last and with the greater name, is
\* ranked 1 before a species with two sightings, ranked 2
C2_Witness ==
    /\ Processed
    /\ Len(result) = 2
    /\ result[1].totalObservations = 1
    /\ result[2].totalObservations = 2
    /\ result[1].rarityRank = 1
    /\ result[2].rarityRank = 2
    /\ LexLess(result[2].comName, result[1].comName)
    /\ ObsKey(observations[1])[1] = result[2].speciesCode

\* C3: in every group the observations are sorted non-increasing by the
\* obsDt string, and totalObservations is the length of the list.
C3_NewestFirst ==
    Processed =>
        \A g \in 1..Len(result) :
            /\ \A i, j \in 1..Len(result[g].observations) :
                  i < j => ~LexLess(result[g].observations[i].obsDt,
                                    result[g].observations[j].obsDt)
            /\ result[g].totalObservations = Len(result[g].observations)

\* a group holds two observations that arrived oldest first
C3_Witness ==
    /\ Processed
    /\ \E g \in 1..Len(result) :
          /\ Len(result[g].observations) = 2
          /\ LexLess(result[g].observations[2].obsDt,
                     result[g].observations[1].obsDt)
          /\ \E k \in 1..Len(observations) :
                /\ ObsKey(observations[k]) = EntryKey(result, <<g, 2>>)
                /\ \A m \in 1..(k-1) :
                      ObsKey(observations[m]) # EntryKey(result, <<g, 1>>)

\* C7: processing the flattened, already deduplicated output again gives
\* the same groups in the same order with the same observation lists,
\* totalObservations and rarityRank.
C7_Idempotent == pc = "reprocessed" => reprocessed = result

\* the second pass ran on an output that dropped a duplicate and holds a
\* group with two observations of one date
C7_Witness ==
    /\ pc = "reprocessed"
    /\ Len(Flatten(result, 1)) < Len(observations)
    /\ \E g \in 1..Len(result) :
          /\ Len(result[g].observations) = 2
          /\ result[g].observations[1].obsDt = result[g].observations[2].obsDt

----------------------------------------------------------------------------
(* fetch_bird_image and main *)

\* processed_data[:30]
TopN == 30

\* " (bird)"
BirdSuffix == <<32, 40, 98, 105, 114, 100, 41>>

\* What one request to the Wikipedia API comes to: a page with a thumbnail,
\* no page with a thumbnail, or an exception (the 5 s timeout, a network
\* failure, a response that is not the JSON structure the code reads).
Outcomes ==
    {"thumbnail", "no_thumbnail", "timeout", "network_error", "malformed"}

Failures == {"timeout", "network_error", "malformed"}

\* a variant of Swallowed that catches the timeout alone
SwallowedTimeoutOnly(outcome) == outcome = "timeout"

\* except Exception: pass
Swallowed(outcome) == outcome \in Failures

\* Python's None
None == <<>>

\* page["thumbnail"]["source"] of the page found for a title
ThumbnailSource(title) == <<"source", title>>

\* a variant of SecondTitle that repeats the first title
SecondTitlePlain(clean_name) == clean_name

\* f"{clean_name} (bird)"
SecondTitle(clean_name) == clean_name \o BirdSuffix

\* a variant of LookupCount that walks the whole list
LookupCountAll(groups) == Len(groups)

\* len(processed_data[:30])
LookupCount(groups) == Min({Len(groups), TopN})

\* species["imageUrl"] = img_url
WithImage(species, img_url) ==
    [k \in DOMAIN species \cup {"imageUrl"} |->
        IF k = "imageUrl" THEN img_url ELSE species[k]]

RECURSIVE SumTotals(_, _)
SumTotals(groups, k) ==
    IF k = 0 THEN 0
    ELSE SumTotals(groups, k - 1) + groups[k].totalObservations

\* a variant of TotalObs that counts the groups
TotalObsCountsGroups(groups) == Len(groups)

\* sum(s["totalObservations"] for s in processed_data)
TotalObs(groups) == SumTotals(groups, Len(groups))

\* the cleaned titles for which Wikipedia may hold a page image, under the
\* plain or the suffixed title: "A" and "B"
WikiImages == {clean_bird_name(nm) : nm \in ComNames}

\* the common names that reach main, and clean_name = clean_bird_name(
\* bird_name) tabulated over them
SpeciesNames ==
    ComNames \cup {UnknownName} \cup {<<64 + k>> : k \in 1..MaxSpecies}

CleanedName == [nm \in SpeciesNames |-> clean_bird_name(nm)]

\* a list of n species named "A", "B", "C", ...: one observation each and
\* a second one of "A", which makes "A" the most common species
ManySpecies(n) ==
    [k \in 1..(n + 1) |->
        IF k <= n
        THEN [speciesCode |-> "sp" \o ToString(k), subId |-> "S1",
              comName |-> <<64 + k>>, obsDt |-> <<50>>]
        ELSE [speciesCode |-> "sp1", subId |-> "S2",
              comName |-> <<65>>, obsDt |-> <<49, 48>>]]

\* what the observation API can return: any short list of observations of
\* one date, or a long list
FetchedLists ==
    UNION {[1..k -> {r \in RawObs : r.obsDt = <<50>>}] : k \in 0..MaxFetched}
        \cup {ManySpecies(n) : n \in TopN..MaxSpecies}

InitMain ==
    /\ pc = "fetch"
    /\ MainIdle
    /\ CleanIdle
    /\ ProcIdle

\* a variant of FetchFail that goes on with no observations
FetchFailSwallowed ==
    /\ pc = "fetch"
    /\ fetches' = fetches + 1
    /\ pc' = "images"
    /\ UNCHANGED <<raw_observations, processed_data, total_obs, img_i, call,
                   invoked, fetched, file, cleanVars, procVars>>

\* requests.get or raise_for_status raises: main prints and re-raises
FetchFail ==
    /\ pc = "fetch"
    /\ fetches' = fetches + 1
    /\ pc' = "raised"
    /\ UNCHANGED <<raw_observations, processed_data, total_obs, img_i, call,
                   invoked, fetched, file, cleanVars, procVars>>

\* the fetch returns obsList; main processes it and sums the counts
FetchOk(obsList) ==
    /\ pc = "fetch"
    /\ fetches' = fetches + 1
    /\ fetched' = TRUE
    /\ raw_observations' = obsList
    /\ processed_data' = process_observations(obsList)
    /\ total_obs' = TotalObs(process_observations(obsList))
    /\ img_i' = 0
    /\ pc' = "images"
    /\ UNCHANGED <<call, invoked, file, cleanVars, procVars>>

\* fetch_bird_image returns img_url and main stores it in the species
Returns(img_url) ==
    /\ processed_data' =
           [processed_data EXCEPT ![img_i + 1] = WithImage(@, img_url)]
    /\ img_i' = img_i + 1
    /\ pc' = "images"

\* main calls fetch_bird_image for the next species, which cleans the name
\* and sends the first request
Request1(outcome) ==
    /\ pc = "images"
    /\ img_i < LookupCount(processed_data)
    /\ outcome = "thumbnail" =>
          CleanedName[processed_data[img_i + 1].comName] \in WikiImages
    /\ LET species == processed_data[img_i + 1]
           clean_name == CleanedName[species.comName]
           started == [name |-> species.comName,
                       requests |-> <<[title |-> clean_name,
                                       outcome |-> outcome]>>,
                       returned |-> FALSE,
                       result |-> None]
       IN /\ invoked' = Append(invoked, species.rarityRank)
          /\ IF outcome = "thumbnail"
             THEN /\ call' = [started EXCEPT
                                 !.returned = TRUE,
                                 !.result = ThumbnailSource(clean_name)]
                  /\ Returns(ThumbnailSource(clean_name))
             ELSE IF outcome = "no_thumbnail"
             THEN /\ call' = started
                  /\ pc' = "retry"
                  /\ UNCHANGED <<processed_data, img_i>>
             ELSE IF Swallowed(outcome)
             THEN /\ call' = [started EXCEPT !.returned = TRUE]
                  /\ Returns(None)
             ELSE /\ call' = started
                  /\ pc' = "raised"
                  /\ UNCHANGED <<processed_data, img_i>>
    /\ UNCHANGED <<raw_observations, total_obs, fetches, fetched, file,
                   cleanVars, procVars>>

\* fetch_bird_image sends the second request, for the suffixed title
Request2(outcome) ==
    /\ pc = "retry"
    /\ outcome = "thumbnail" => call.requests[1].title \in WikiImages
    /\ LET title == SecondTitle(call.requests[1].title)
           asked == [call EXCEPT
                        !.requests = Append(@, [title |-> title,
                                                outcome |-> outcome])]
       IN IF outcome = "thumbnail"
          THEN /\ call' = [asked EXCEPT
                              !.returned = TRUE,
                              !.result = ThumbnailSource(title)]
               /\ Returns(ThumbnailSource(title))
          ELSE IF outcome = "no_thumbnail" \/ Swallowed(outcome)
          THEN /\ call' = [asked EXCEPT !.returned = TRUE]
               /\ Returns(None)
          ELSE /\ call' = asked
               /\ pc' = "raised"
               /\ UNCHANGED <<processed_data, img_i>>
    /\ UNCHANGED <<raw_observations, total_obs, invoked, fetches, fetched,
                   file, cleanVars, procVars>>

\* the loop is over: main assembles the snapshot and writes data/birds.json
\* (lastUpdated, the time of the write, is left out; mkdir and open are
\* taken to succeed)
Write ==
    /\ pc = "images"
    /\ img_i = LookupCount(processed_data)
    /\ file' = [exists |-> TRUE,
                region |-> "New York",
                regionCode |-> "US-NY",
                daysBack |-> 7,
                totalSpecies |-> Len(processed_data),
                totalObservations |-> total_obs,
                species |-> processed_data]
    /\ pc' = "done"
    /\ UNCHANGED <<raw_observations, processed_data, total_obs, img_i, call,
                   invoked, fetches, fetched, cleanVars, procVars>>

\* the steps of main after the fetch
AfterFetch ==
    \/ \E outcome \in Outcomes : Request1(outcome)
    \/ \E outcome \in Outcomes : Request2(outcome)
    \/ Write

NextMain ==
    \/ FetchFail
    \/ \E obsList \in FetchedLists : FetchOk(obsList)
    \/ AfterFetch

SpecMain == InitMain /\ [][NextMain]_vars

\* main runs on one thread, and every request of a lookup ends, by its
\* response or by its 5 s timeout: after the fetch, a step that can be
\* taken is taken. The fetch itself sets no timeout and gets no fairness.
FairMain == SpecMain /\ WF_vars(AfterFetch)

\* C4: fetch_bird_image is invoked once for each of the first min(N, 30)
\* groups, in rarity-rank order, and never for a rank above 30; in the
\* written snapshot a group of rank above 30 has no imageUrl field and a
\* group of rank at most 30 has one (a URL or null).
C4_TopThirtyOnly ==
    /\ \A k \in 1..Len(invoked) : invoked[k] = k /\ k <= TopN
    /\ Len(invoked) <= Len(processed_data)
    /\ pc = "done" =>
        /\ Len(invoked) = Min({Len(file.species), TopN})
        /\ \A g \in 1..Len(file.species) :
              IF file.species[g].rarityRank > TopN
              THEN "imageUrl" \notin DOMAIN file.species[g]
              ELSE /\ "imageUrl" \in DOMAIN file.species[g]
                   /\ \/ file.species[g].imageUrl = None
                      \/ \E t \in {clean_bird_name(file.species[g].comName)} :
                            file.species[g].imageUrl \in
                                {ThumbnailSource(t),
                                 ThumbnailSource(t \o BirdSuffix)}

\* a snapshot of more than 30 groups was written, one of the first 30 with
\* an image URL and the group of rank 31 one that Wikipedia has an image for
C4_Witness ==
    /\ pc = "done"
    /\ Len(file.species) > TopN
    /\ Len(invoked) = TopN
    /\ \E g \in 1..TopN : file.species[g].imageUrl # None
    /\ clean_bird_name(file.species[TopN + 1].comName) \in WikiImages

\* C5: a failed observation fetch is raised to the top level without a
\* retry, no image lookup is made and data/birds.json is not written: a
\* written file implies that the fetch succeeded earlier in the run.
C5_NoFileWithoutFetch ==
    /\ file.exists => fetched
    /\ fetches <= 1
    /\ invoked # <<>> => fetched
    /\ (fetches = 1 /\ ~fetched) =>
          (pc = "raised" /\ file = NoFile /\ invoked = <<>>)

\* the fetch failed and the run ended with the error
C5_Witness ==
    /\ pc = "raised"
    /\ fetches = 1
    /\ ~fetched
    /\ file = NoFile

HasThumbnail(requests) ==
    \E k \in 1..Len(requests) : requests[k].outcome = "thumbnail"

\* C6: no failure of an image lookup leaves fetch_bird_image: the species
\* gets imageUrl = null, the lookups go on for the remaining top-30 species,
\* and a run whose fetch succeeded always writes the snapshot and completes.
C6_LookupFailuresSwallowed ==
    /\ [](pc = "raised" => ~fetched)
    /\ []((call.returned /\ ~HasThumbnail(call.requests)) =>
            /\ call.result = None
            /\ processed_data[Len(invoked)].imageUrl = None)
    /\ [](pc = "done" =>
            /\ file.exists
            /\ Len(invoked) = Min({Len(processed_data), TopN}))
    /\ (fetched ~> pc = "done")

\* the run completed after a lookup that timed out and one that found no
\* thumbnail under either title
C6_Witness ==
    /\ pc = "done"
    /\ file.exists
    /\ Len(file.species) >= 2
    /\ call.returned
    /\ call.requests[1].outcome = "timeout"
    /\ file.species[Len(invoked)].imageUrl = None
    /\ file.species[1].imageUrl = None

\* C9: totalSpecies is the number of groups and of distinct species codes
\* of the input, totalObservations is the sum of the groups'
\* totalObservations and the number of distinct (speciesCode, subId) keys of
\* the input; an empty input gives an empty species list and zero totals;
\* the image loop changes neither total.
C9_TotalsAgree ==
    /\ (fetched /\ pc # "fetch") =>
        /\ total_obs = SumTotals(processed_data, Len(processed_data))
        /\ total_obs = Cardinality(InputKeys(raw_observations))
        /\ Len(processed_data) =
              Cardinality({key[1] : key \in InputKeys(raw_observations)})
    /\ pc = "done" =>
        /\ file.totalSpecies = Len(file.species)
        /\ file.totalSpecies =
              Cardinality({key[1] : key \in InputKeys(raw_observations)})
        /\ file.totalObservations =
              SumTotals(file.species, Len(file.species))
        /\ file.totalObservations = Cardinality(InputKeys(raw_observations))
        /\ raw_observations = <<>> =>
              /\ file.species = <<>>
              /\ file.totalSpecies = 0
              /\ file.totalObservations = 0

\* a snapshot was written for two raw observations of one species, after
\* the image loop stored an image URL
C9_Witness ==
    /\ pc = "done"
    /\ Len(raw_observations) = 2
    /\ file.totalSpecies = 1
    /\ file.totalObservations = 2
    /\ file.species[1].imageUrl # None

\* C10: one call of fetch_bird_image sends at most two requests, first for
\* the cleaned title and then for the cleaned title with " (bird)"; the
\* second is sent exactly when the first completed without error and found
\* no thumbnail; the result is the first thumbnail source found, and none
\* when neither request finds one or a request errors.
C10_TwoRequests ==
    LET r == call.requests
        clean_name == clean_bird_name(call.name)
    IN /\ Len(r) <= 2
       /\ Len(r) >= 1 => r[1].title = clean_name
       /\ Len(r) = 2 =>
            /\ r[2].title = clean_name \o BirdSuffix
            /\ r[1].outcome = "no_thumbnail"
       /\ call.returned =>
            /\ Len(r) >= 1
            /\ Len(r) = 2 <=> r[1].outcome = "no_thumbnail"
            /\ call.result =
                 IF r[1].outcome = "thumbnail"
                 THEN ThumbnailSource(clean_name)
                 ELSE IF Len(r) = 2 /\ r[2].outcome = "thumbnail"
                 THEN ThumbnailSource(clean_name \o BirdSuffix)
                 ELSE None
       /\ (~call.returned /\ Len(r) = 1 /\ r[1].outcome = "no_thumbnail") =>
            pc = "retry"

\* a call whose name needed cleaning found its thumbnail with the second
\* request
C10_Witness ==
    /\ call.returned
    /\ Len(call.requests) = 2
    /\ call.requests[2].outcome = "thumbnail"
    /\ call.name # clean_bird_name(call.name)
    /\ call.result # None

=============================================================================
